---- MODULE Spec2Model ----
(***************************************************************************)
(* State-machine model of the diagnosis pipeline of the skin-cancer        *)
(* detection service: models/preprocessing.py (preprocess_image),          *)
(* models/model.py (load_model, create_dummy_model, predict_image) and     *)
(* models/groq_integration.py (get_groq_analysis).                         *)
(*                                                                         *)
(* Python values are modelled as tagged records ([py |-> "None"], ...).    *)
(* A float produced by `x / 255.0` is kept as the pair [num, den]; a model *)
(* probability is kept in fixed point with PScale units for 1.0.           *)
(***************************************************************************)
EXTENDS Integers, Sequences, FiniteSets, TLC

VARIABLES call, config, _model, objs, thr, calls, session, uploads, response

vars == <<call, config, _model, objs, thr, calls, session, uploads, response>>

(***************************************************************************)
(* Bounds of the model.                                                    *)
(***************************************************************************)
MaxDim == 2

MaxContentLen == 3

MaxCalls == 2

NThreads == 2

(***************************************************************************)
(* Python values.                                                          *)
(***************************************************************************)
NoneVal == [py |-> "None"]

ErrorDict(msg) == [py |-> "dict", keys |-> {"error"}, error |-> msg]

Min(a, b) == IF a <= b THEN a ELSE b

(***************************************************************************)
(* models/preprocessing.py : preprocess_image                              *)
(*                                                                         *)
(* A decoded PIL image is [mode, width, height, px] with px[y][x] the      *)
(* pixel at row y, column x: a sample for single-band modes, a tuple of    *)
(* samples for multi-band modes.                                           *)
(***************************************************************************)
Modes == {"L", "P", "LA", "RGB", "RGBA", "I;16"}

\* number of bands of a PIL mode; 0 stands for "no channel axis" (2-D array)
Bands(mode) ==
    CASE mode = "LA" -> 2
      [] mode = "RGB" -> 3
      [] mode = "RGBA" -> 4
      [] OTHER -> 0

\* largest sample a mode can hold (8-bit modes, 16-bit for "I;16")
MaxSample(mode) == IF mode = "I;16" THEN 65535 ELSE 255

SrcW == 2

SrcH == 1

\* the two pixels used to build input images: all samples 0, all samples max
Pixel(mode, hi) ==
    LET s == IF hi THEN MaxSample(mode) ELSE 0
    IN  IF Bands(mode) = 0 THEN <<s>> ELSE [c \in 1..Bands(mode) |-> s]

Images ==
    { [mode |-> m, width |-> SrcW, height |-> SrcH,
       px |-> [y \in 1..SrcH |-> [x \in 1..SrcW |-> Pixel(m, f[x])]]] :
         m \in Modes, f \in [1..SrcW -> BOOLEAN] }

\* files on disk: a decodable image or a file Image.open rejects
Files == {[ok |-> TRUE, img |-> i] : i \in Images} \cup {[ok |-> FALSE]}

TargetSizes == (1..MaxDim) \X (1..MaxDim)

\* Image.resize(size): size is (width, height); samples are taken from the
\* source (nearest source pixel), so they stay within the mode's range
Resize(img, size) ==
    [mode |-> img.mode, width |-> size[1], height |-> size[2],
     px |-> [y \in 1..size[2] |-> [x \in 1..size[1] |->
               img.px[(((y - 1) * img.height) \div size[2]) + 1]
                     [(((x - 1) * img.width) \div size[1]) + 1]]]]

\* largest entry of a shape tuple
MaxOf(shape) ==
    CHOOSE m \in {shape[k] : k \in 1..Len(shape)} :
        \A k \in 1..Len(shape) : shape[k] <= m

\* index tuples of an array of the given shape
Indices(shape) ==
    {i \in [1..Len(shape) -> 1..MaxOf(shape)] :
        \A k \in 1..Len(shape) : i[k] <= shape[k]}

\* np.array(img): (height, width) for single-band modes, (height, width,
\* bands) otherwise
ToArray(img) ==
    IF Bands(img.mode) = 0
    THEN [shape |-> <<img.height, img.width>>,
          at |-> [i \in Indices(<<img.height, img.width>>) |->
                     img.px[i[1]][i[2]][1]]]
    ELSE [shape |-> <<img.height, img.width, Bands(img.mode)>>,
          at |-> [i \in Indices(<<img.height, img.width, Bands(img.mode)>>) |->
                     img.px[i[1]][i[2]][i[3]]]]

\* np.stack([a, a, a], axis=-1)
Stack3(a) ==
    [shape |-> a.shape \o <<3>>,
     at |-> [i \in Indices(a.shape \o <<3>>) |->
                a.at[SubSeq(i, 1, Len(a.shape))]]]

\* a[:, :, :3]
First3(a) ==
    LET s == <<a.shape[1], a.shape[2], Min(a.shape[3], 3)>>
    IN  [shape |-> s, at |-> [i \in Indices(s) |-> a.at[i]]]

\* np.expand_dims(a, axis=0)
ExpandDims0(a) ==
    [shape |-> <<1>> \o a.shape,
     at |-> [i \in Indices(<<1>> \o a.shape) |->
                a.at[SubSeq(i, 2, Len(i))]]]

\* a.astype('float32') / 255.0
Div255(a) ==
    [shape |-> a.shape,
     at |-> [i \in Indices(a.shape) |-> [num |-> a.at[i], den |-> 255]]]

EnsureRGB(a) ==
    IF Len(a.shape) = 2 THEN Stack3(a)
    ELSE IF a.shape[3] = 4 THEN First3(a)
    ELSE a

\* preprocess_image with a handler that swallows the failure and returns a
\* blank tensor instead of re-raising
preprocess_image_recover(file, target_size) ==
    IF ~file.ok
    THEN [raised |-> FALSE,
          value |-> [shape |-> <<1, target_size[2], target_size[1], 3>>,
                     at |-> [i \in Indices(<<1, target_size[2], target_size[1], 3>>)
                                |-> [num |-> 0, den |-> 255]]]]
    ELSE [raised |-> FALSE,
          value |-> Div255(ExpandDims0(EnsureRGB(
                        ToArray(Resize(file.img, target_size)))))]

preprocess_image(file, target_size) ==
    IF ~file.ok
    THEN [raised |-> TRUE]
    ELSE [raised |-> FALSE,
          value |-> Div255(ExpandDims0(EnsureRGB(
                        ToArray(Resize(file.img, target_size)))))]

(***************************************************************************)
(* models/groq_integration.py : get_groq_analysis                          *)
(*                                                                         *)
(* Strings that matter for parsing (the reply content) are sequences of    *)
(* one-character strings over Alphabet.                                    *)
(***************************************************************************)
Alphabet == {"{", "}", "1", " ", "x"}

Contents == UNION {[1..n -> Alphabet] : n \in 0..MaxContentLen}

\* str.find(c): 0-based index of the first occurrence, -1 when absent
find(s, c) ==
    IF \E i \in 1..Len(s) : s[i] = c
    THEN (CHOOSE i \in 1..Len(s) :
             s[i] = c /\ \A j \in 1..(i - 1) : s[j] # c) - 1
    ELSE -1

\* str.rfind(c): 0-based index of the last occurrence, -1 when absent
rfind(s, c) ==
    IF \E i \in 1..Len(s) : s[i] = c
    THEN (CHOOSE i \in 1..Len(s) :
             s[i] = c /\ \A j \in (i + 1)..Len(s) : s[j] # c) - 1
    ELSE -1

\* s[start:end] with 0 <= start
Slice(s, start, end) == SubSeq(s, start + 1, Min(end, Len(s)))

\* s without leading and trailing whitespace
Strip(s) ==
    IF \A i \in 1..Len(s) : s[i] = " "
    THEN <<>>
    ELSE LET a == CHOOSE i \in 1..Len(s) :
                      s[i] # " " /\ \A j \in 1..(i - 1) : s[j] = " "
             b == CHOOSE i \in 1..Len(s) :
                      s[i] # " " /\ \A j \in (i + 1)..Len(s) : s[j] = " "
         IN  SubSeq(s, a, b)

RECURSIVE Ones(_)
\* the integer written as n digits '1'
Ones(n) == IF n = 0 THEN 0 ELSE 10 * Ones(n - 1) + 1

\* json.loads on a str: the JSON texts over Alphabet are a number 1...1 or
\* an empty object { }, with optional surrounding whitespace
json_loads(s) ==
    LET t == Strip(s)
    IN  IF Len(t) >= 1 /\ \A i \in 1..Len(t) : t[i] = "1"
        THEN [ok |-> TRUE, value |-> [py |-> "int", v |-> Ones(Len(t))]]
        ELSE IF /\ Len(t) >= 2
                /\ t[1] = "{"
                /\ t[Len(t)] = "}"
                /\ \A i \in 2..(Len(t) - 1) : t[i] = " "
        THEN [ok |-> TRUE, value |-> [py |-> "dict", keys |-> {}]]
        ELSE [ok |-> FALSE]

\* outcomes of requests.post(...): an exception of requests, or a response
\* with a status code and a body
Bodies ==
    {[shape |-> sh, content |-> <<>>] :
        sh \in {"not_json", "no_choices", "no_message", "no_content",
                "null_content"}}
    \cup {[shape |-> "content", content |-> c] : c \in Contents}

Responses ==
    {[kind |-> k, status |-> 0, body |-> [shape |-> "none", content |-> <<>>]] :
        k \in {"timeout", "connection_error"}}
    \cup {[kind |-> "http", status |-> 200, body |-> b] : b \in Bodies}
    \cup {[kind |-> "http", status |-> st,
           body |-> [shape |-> "not_json", content |-> <<>>]] :
             st \in {401, 500}}

\* the confidence argument: a number (in PScale units) or a non-number
Confidences ==
    {[numeric |-> TRUE, v |-> 0], [numeric |-> TRUE, v |-> 87654],
     [numeric |-> FALSE, v |-> 0]}

\* lines 84-99: parse the reply content
parse_content(content) ==
    LET first == json_loads(content)
        start_idx == find(content, "{")
        end_idx == rfind(content, "}") + 1
    IN  IF first.ok
        THEN [exc |-> "", ret |-> first.value]
        ELSE IF start_idx >= 0 /\ end_idx > start_idx
        THEN LET second == json_loads(Slice(content, start_idx, end_idx))
             IN  IF second.ok
                 THEN [exc |-> "", ret |-> second.value]
                 ELSE [exc |-> "",
                       ret |-> ErrorDict("Failed to parse JSON from Groq response")]
        ELSE [exc |-> "", ret |-> NoneVal]

\* lines 79-102: handle the response
handle_response(resp) ==
    IF resp.status = 200
    THEN CASE resp.body.shape = "not_json" ->
                [exc |-> "JSONDecodeError", ret |-> NoneVal]
           [] resp.body.shape \in {"no_choices", "no_message", "no_content"} ->
                [exc |-> "KeyError", ret |-> NoneVal]
           [] resp.body.shape = "null_content" ->
                [exc |-> "TypeError", ret |-> NoneVal]
           [] OTHER -> parse_content(resp.body.content)
    ELSE [exc |-> "",
          ret |-> ErrorDict("API request failed with status code")]

\* variant of groq_try: the prompt is formatted before the key is checked
groq_try_formatFirst(api_key, predicted_class, confidence, resp) ==
    IF ~confidence.numeric
    THEN [exc |-> "ValueError", ret |-> NoneVal, posts |-> 0]
    ELSE IF api_key = ""
    THEN [exc |-> "", ret |-> NoneVal, posts |-> 0]
    ELSE IF resp.kind # "http"
    THEN [exc |-> resp.kind, ret |-> NoneVal, posts |-> 1]
    ELSE [exc |-> handle_response(resp).exc,
          ret |-> handle_response(resp).ret, posts |-> 1]

\* lines 24-102: the body of the try block; exc names the exception that
\* leaves it ("" for none), posts counts the HTTP requests issued
groq_try(api_key, predicted_class, confidence, resp) ==
    IF api_key = ""
    THEN [exc |-> "", ret |-> NoneVal, posts |-> 0]
    ELSE IF ~confidence.numeric
    THEN [exc |-> "ValueError", ret |-> NoneVal, posts |-> 0]
    ELSE IF resp.kind # "http"
    THEN [exc |-> resp.kind, ret |-> NoneVal, posts |-> 1]
    ELSE [exc |-> handle_response(resp).exc,
          ret |-> handle_response(resp).ret, posts |-> 1]

\* variant of groq_except: the exception leaves get_groq_analysis
groq_except_reraise(t) ==
    IF t.exc # ""
    THEN [raised |-> TRUE, ret |-> NoneVal, posts |-> t.posts]
    ELSE [raised |-> FALSE, ret |-> t.ret, posts |-> t.posts]

\* lines 104-106: the handler of the try block
groq_except(t) ==
    IF t.exc # ""
    THEN [raised |-> FALSE, ret |-> ErrorDict(t.exc), posts |-> t.posts]
    ELSE [raised |-> FALSE, ret |-> t.ret, posts |-> t.posts]

get_groq_analysis(api_key, predicted_class, confidence, resp) ==
    groq_except(groq_try(api_key, predicted_class, confidence, resp))

(***************************************************************************)
(* models/model.py : load_model, create_dummy_model, predict_image         *)
(*                                                                         *)
(* A model object is an index into objs; objs[id] records where the object *)
(* came from (kind), whether compile() succeeded on it, and the output     *)
(* vector its forward pass yields for a well-shaped input (its weights).   *)
(***************************************************************************)
None == 0

PScale == 100000

Threads == 1..NThreads

class_labels ==
    <<"actinic keratosis", "basal cell carcinoma", "dermatofibroma",
      "melanoma", "nevus", "pigmented benign keratosis",
      "seborrheic keratosis", "squamous cell carcinoma", "vascular lesion">>

\* an output vector of length n with probability p at 0-based index k
Vec(n, k, p) == [i \in 1..n |-> IF i = k + 1 THEN p ELSE 0]

\* outputs of a 9-way softmax layer
Outputs9 ==
    {[i \in 1..9 |-> 11111], Vec(9, 8, PScale), Vec(9, 3, 12345)}

\* outputs of a model read from disk: its last layer need not have 9 units
OutputsAny ==
    Outputs9 \cup {Vec(10, 9, 60000), Vec(10, 2, 60000), Vec(3, 1, 70000), <<>>}

\* replies used when predict_image calls the enrichment
PredictResponses ==
    {r \in Responses :
        \/ r.kind = "timeout"
        \/ r.status = 500
        \/ r.body.shape = "content" /\ r.body.content \in {<<"{", "}">>, <<"x">>}}

\* weights a model object of the given kind can have in the process model
WeightsOf(kind) ==
    IF kind = "dummy"
    THEN {Vec(9, 8, PScale), Vec(9, 3, 12345)}
    ELSE {Vec(9, 3, 12345), Vec(10, 9, 60000)}

\* replies of the enrichment API in the process model
ProcessResponses ==
    {r \in PredictResponses :
        r.kind = "timeout" \/ r.body.content = <<"{", "}">>}

create_dummy_model(out) == [kind |-> "dummy", compiled |-> TRUE, out |-> out]

\* np.argmax: 0-based index of the first maximum
argmax(v) ==
    (CHOOSE i \in 1..Len(v) :
        /\ \A j \in 1..Len(v) : v[j] <= v[i]
        /\ \A j \in 1..(i - 1) : v[j] < v[i]) - 1

\* round(n / d) to an integer, ties to even (Python's round)
RoundHalfEven(n, d) ==
    LET q == n \div d
        r == n % d
    IN  IF 2 * r < d THEN q
        ELSE IF 2 * r > d THEN q + 1
        ELSE IF q % 2 = 0 THEN q ELSE q + 1

\* variant of Percent: the percentage is scaled by 100 a second time
Percent_scaledTwice(p) == RoundHalfEven(p * 100 * 100, PScale) * 100

\* round(confidence * 100, 2), in hundredths of a percent
Percent(p) == RoundHalfEven(p * 100 * 100, PScale)

\* lines 105-106: the probability of the predicted class, as a fraction
MaxProbability(out) == out[argmax(out) + 1]

\* groq_integration.py line 34: the number '{confidence:.2f}' puts in front
\* of the '%' sign, in hundredths
FormatPercent2(confidence) == RoundHalfEven(confidence * 100, PScale)

Fallback(msg) ==
    [prediction |-> "unknown", confidence |-> 0, class_index |-> -1,
     all_probabilities |-> {}, error |-> msg]

\* variant of predict_try: an error marker from the enrichment is treated as
\* a failure of the whole prediction
predict_try_enrichmentFatal(loaded, tensor_ok, api_key, resp) ==
    LET out == loaded.out
        predicted_class_index == argmax(out)
        confidence == MaxProbability(out)
        predicted_class == class_labels[predicted_class_index + 1]
        g == get_groq_analysis(api_key, predicted_class,
                               [numeric |-> TRUE, v |-> confidence], resp)
        posts == IF api_key # "" THEN g.posts ELSE 0
        additional_analysis ==
            IF api_key # "" /\ ~g.raised THEN g.ret ELSE NoneVal
    IN  IF loaded.raised
        THEN [exc |-> "load_model", posts |-> 0, ret |-> NoneVal]
        ELSE IF ~tensor_ok \/ Len(out) = 0
        THEN [exc |-> "ValueError", posts |-> 0, ret |-> NoneVal]
        ELSE IF predicted_class_index >= Len(class_labels)
        THEN [exc |-> "IndexError", posts |-> 0, ret |-> NoneVal]
        ELSE IF \/ Len(out) < Len(class_labels)
                \/ (api_key # "" /\ g.ret.py = "dict" /\ "error" \in g.ret.keys)
        THEN [exc |-> "IndexError", posts |-> posts, ret |-> NoneVal]
        ELSE [exc |-> "", posts |-> posts,
              ret |-> [prediction |-> predicted_class,
                       confidence |-> Percent(confidence),
                       class_index |-> predicted_class_index,
                       all_probabilities |->
                           {<<class_labels[i], out[i]>> :
                               i \in 1..Len(class_labels)},
                       additional_analysis |-> additional_analysis]]

\* lines 97-142: the try block of predict_image; loaded is what load_model
\* did (raised, or returned a model whose forward pass yields loaded.out)
predict_try(loaded, tensor_ok, api_key, resp) ==
    LET out == loaded.out
        predicted_class_index == argmax(out)
        confidence == MaxProbability(out)
        predicted_class == class_labels[predicted_class_index + 1]
        g == get_groq_analysis(api_key, predicted_class,
                               [numeric |-> TRUE, v |-> confidence], resp)
        posts == IF api_key # "" THEN g.posts ELSE 0
        additional_analysis ==
            IF api_key # "" /\ ~g.raised THEN g.ret ELSE NoneVal
    IN  IF loaded.raised
        THEN [exc |-> "load_model", posts |-> 0, ret |-> NoneVal]
        ELSE IF ~tensor_ok \/ Len(out) = 0
        THEN [exc |-> "ValueError", posts |-> 0, ret |-> NoneVal]
        ELSE IF predicted_class_index >= Len(class_labels)
        THEN [exc |-> "IndexError", posts |-> 0, ret |-> NoneVal]
        ELSE IF Len(out) < Len(class_labels)
        THEN [exc |-> "IndexError", posts |-> posts, ret |-> NoneVal]
        ELSE [exc |-> "", posts |-> posts,
              ret |-> [prediction |-> predicted_class,
                       confidence |-> Percent(confidence),
                       class_index |-> predicted_class_index,
                       all_probabilities |->
                           {<<class_labels[i], out[i]>> :
                               i \in 1..Len(class_labels)},
                       additional_analysis |-> additional_analysis]]

\* variant of predict_except: the exception leaves predict_image
predict_except_reraise(t) ==
    IF t.exc # ""
    THEN [raised |-> TRUE, exc |-> t.exc, posts |-> t.posts, ret |-> NoneVal]
    ELSE [raised |-> FALSE, exc |-> "", posts |-> t.posts, ret |-> t.ret]

\* lines 144-154: the handler of predict_image's try block
predict_except(t) ==
    IF t.exc # ""
    THEN [raised |-> FALSE, exc |-> t.exc, posts |-> t.posts,
          ret |-> Fallback(t.exc)]
    ELSE [raised |-> FALSE, exc |-> "", posts |-> t.posts, ret |-> t.ret]

predict_image(loaded, tensor_ok, api_key, resp) ==
    predict_except(predict_try(loaded, tensor_ok, api_key, resp))

\* a thread that serves no request; route, req, the two filenames and
\* tensor_ok belong to the upload handler that called predict_image, if any
IdleThread ==
    [pc |-> "idle", ret |-> None, load_raised |-> FALSE, log |-> <<>>,
     exc |-> "", raised |-> FALSE, posts |-> 0, result |-> NoneVal,
     route |-> "", req |-> NoneVal, unique_filename |-> NoneVal,
     original_filename |-> <<>>, tensor_ok |-> TRUE]

Logged(t, step, ok) == Append(thr[t].log, [step |-> step, ok |-> ok])

\* a request enters predict_image (line 99 calls load_model)
Call(t) ==
    /\ thr[t].pc \in {"idle", "done"}
    /\ calls.started < MaxCalls
    /\ thr' = [thr EXCEPT ![t] = [IdleThread EXCEPT !.pc = "l21"]]
    /\ calls' = [calls EXCEPT !.started = @ + 1]
    /\ UNCHANGED <<session, uploads, response, call, config, _model, objs>>

\* lines 21-22: return the cached model, or start the load sequence
L21(t) ==
    /\ thr[t].pc = "l21"
    /\ IF _model # None
       THEN /\ thr' = [thr EXCEPT ![t].ret = _model, ![t].pc = "l102"]
            /\ calls' = calls
       ELSE /\ thr' = [thr EXCEPT ![t].pc = "l33"]
            /\ calls' = [calls EXCEPT !.loadSeqs = @ + 1]
    /\ UNCHANGED <<session, uploads, response, call, config, _model, objs>>

\* variant of L33: a failed .h5 load goes straight to the placeholder
L33_skipSavedModel(t) ==
    /\ thr[t].pc = "l33"
    /\ \E ok \in BOOLEAN :
         /\ IF ok
            THEN \E out \in WeightsOf("h5") :
                   /\ objs' = Append(objs, [kind |-> "h5", compiled |-> FALSE,
                                            out |-> out])
                   /\ _model' = Len(objs) + 1
            ELSE UNCHANGED <<_model, objs>>
         /\ thr' = [thr EXCEPT ![t].pc = IF ok THEN "l40" ELSE "l60",
                               ![t].log = Logged(t, "h5_load", ok)]
    /\ UNCHANGED <<session, uploads, response, call, config, calls>>

\* lines 32-37: _model = tf.keras.models.load_model(model.h5)
L33(t) ==
    /\ thr[t].pc = "l33"
    /\ \E ok \in BOOLEAN :
         /\ IF ok
            THEN \E out \in WeightsOf("h5") :
                   /\ objs' = Append(objs, [kind |-> "h5", compiled |-> FALSE,
                                            out |-> out])
                   /\ _model' = Len(objs) + 1
            ELSE UNCHANGED <<_model, objs>>
         /\ thr' = [thr EXCEPT ![t].pc = IF ok THEN "l40" ELSE "l54",
                               ![t].log = Logged(t, "h5_load", ok)]
    /\ UNCHANGED <<session, uploads, response, call, config, calls>>

\* lines 40-46: _model.compile(...) on whatever the global holds now
L40(t) ==
    /\ thr[t].pc = "l40"
    /\ \E ok \in BOOLEAN :
         /\ objs' = IF ok THEN [objs EXCEPT ![_model].compiled = TRUE] ELSE objs
         /\ thr' = [thr EXCEPT ![t].pc = IF ok THEN "l67" ELSE "l54",
                               ![t].log = Logged(t, "h5_compile", ok)]
    /\ UNCHANGED <<session, uploads, response, call, config, _model, calls>>

\* lines 48-54: the .h5 attempt failed; does the SavedModel directory exist
L54(t) ==
    /\ thr[t].pc = "l54"
    /\ \E exists \in BOOLEAN :
         thr' = [thr EXCEPT ![t].pc = IF exists THEN "l55" ELSE "l60",
                            ![t].log = Logged(t, "dir_exists", exists)]
    /\ UNCHANGED <<session, uploads, response, call, config, _model, objs, calls>>

\* lines 55-56: _model = tf.keras.models.load_model(converted_model)
L55(t) ==
    /\ thr[t].pc = "l55"
    /\ \E ok \in BOOLEAN :
         /\ IF ok
            THEN \E out \in WeightsOf("saved") :
                   /\ objs' = Append(objs, [kind |-> "saved", compiled |-> TRUE,
                                            out |-> out])
                   /\ _model' = Len(objs) + 1
            ELSE UNCHANGED <<_model, objs>>
         /\ thr' = [thr EXCEPT ![t].pc = IF ok THEN "l67" ELSE "l65",
                               ![t].log = Logged(t, "saved_load", ok)]
    /\ UNCHANGED <<session, uploads, response, call, config, calls>>

\* lines 58-60: _model = create_dummy_model(), inside the inner try
L60(t) ==
    /\ thr[t].pc = "l60"
    /\ \E ok \in BOOLEAN :
         /\ IF ok
            THEN \E out \in WeightsOf("dummy") :
                   /\ objs' = Append(objs, create_dummy_model(out))
                   /\ _model' = Len(objs) + 1
            ELSE UNCHANGED <<_model, objs>>
         /\ thr' = [thr EXCEPT ![t].pc = IF ok THEN "l67" ELSE "l65",
                               ![t].log = Logged(t, "dummy_l60", ok)]
    /\ UNCHANGED <<session, uploads, response, call, config, calls>>

\* lines 61-65: _model = create_dummy_model(), in the handler of the
\* SavedModel attempt
L65(t) ==
    /\ thr[t].pc = "l65"
    /\ \E ok \in BOOLEAN :
         /\ IF ok
            THEN \E out \in WeightsOf("dummy") :
                   /\ objs' = Append(objs, create_dummy_model(out))
                   /\ _model' = Len(objs) + 1
            ELSE UNCHANGED <<_model, objs>>
         /\ thr' = [thr EXCEPT ![t].pc = IF ok THEN "l67" ELSE "l71",
                               ![t].log = Logged(t, "dummy_l65", ok)]
    /\ UNCHANGED <<session, uploads, response, call, config, calls>>

\* line 67: return _model
L67(t) ==
    /\ thr[t].pc = "l67"
    /\ thr' = [thr EXCEPT ![t].ret = _model, ![t].pc = "l102"]
    /\ UNCHANGED <<session, uploads, response, call, config, _model, objs, calls>>

\* lines 69-71: return create_dummy_model() from the outermost handler; when
\* that raises too, load_model raises into predict_image's handler
L71(t) ==
    /\ thr[t].pc = "l71"
    /\ \E ok \in BOOLEAN :
         /\ IF ok
            THEN \E out \in WeightsOf("dummy") :
                   /\ objs' = Append(objs, create_dummy_model(out))
                   /\ thr' = [thr EXCEPT ![t].ret = Len(objs) + 1,
                                         ![t].pc = "l102",
                                         ![t].log = Logged(t, "dummy_l71", ok)]
            ELSE /\ objs' = objs
                 /\ thr' = [thr EXCEPT ![t].load_raised = TRUE,
                                       ![t].pc = "l102",
                                       ![t].log = Logged(t, "dummy_l71", ok)]
    /\ UNCHANGED <<session, uploads, response, call, config, _model, calls>>

\* what load_model handed to predict_image in thread t
Loaded(t) ==
    [raised |-> thr[t].load_raised,
     out |-> IF thr[t].load_raised THEN <<>> ELSE objs[thr[t].ret].out]

\* lines 99-154: load_model has returned or raised; forward pass, label
\* lookup, enrichment, result assembly, exception handler
L102(t) ==
    /\ thr[t].pc = "l102"
    /\ \E tensor_ok \in IF thr[t].route = "" THEN BOOLEAN
                        ELSE {thr[t].tensor_ok},
          resp \in ProcessResponses :
         LET r == predict_image(Loaded(t), tensor_ok, config.GROQ_API_KEY, resp)
         IN  thr' = [thr EXCEPT ![t].pc = IF thr[t].route = "" THEN "done"
                                         ELSE "l74",
                                ![t].tensor_ok = tensor_ok,
                                ![t].exc = r.exc,
                                ![t].raised = r.raised,
                                ![t].posts = r.posts,
                                ![t].result = r.ret]
    /\ UNCHANGED <<session, uploads, response, call, config, _model, objs, calls>>

Step(t) ==
    \/ Call(t)
    \/ L21(t)
    \/ L33(t)
    \/ L40(t)
    \/ L54(t)
    \/ L55(t)
    \/ L60(t)
    \/ L65(t)
    \/ L67(t)
    \/ L71(t)
    \/ L102(t)

(***************************************************************************)
(* models/preprocessing.py, extract_features (lines 101-214).  Arrays      *)
(* carry their dtype; a sample of a float array is kept as its numerator   *)
(* over 255, so v stands for v/255.  The OpenCV calls are modelled by what *)
(* they compute on 8-bit data.                                             *)
(***************************************************************************)
Rat(n, d) == [num |-> n, den |-> d]

Zero == Rat(0, 1)

RECURSIVE SumSeq(_)
SumSeq(xs) == IF xs = <<>> THEN 0 ELSE Head(xs) + SumSeq(Tail(xs))

\* RGB pixels the feature inputs are made of: black, white, a dark gray
\* whose square is a multiple of 256, and a red
Palette == {<<0, 0, 0>>, <<255, 255, 255>>, <<16, 16, 16>>, <<200, 30, 30>>}

\* the pixel grids of SrcH x SrcW images: a background of one colour with
\* the first pixel of the same or another colour
Grids ==
    {[q \in (1..SrcH) \X (1..SrcW) |-> IF q = <<1, 1>> THEN a ELSE b] :
        a \in Palette, b \in Palette}

\* an array of shape (len(grids), SrcH, SrcW, 3)
Batch(dtype, grids) ==
    LET s == <<Len(grids), SrcH, SrcW, 3>>
    IN  [kind |-> "ndarray", dtype |-> dtype, shape |-> s,
         at |-> [i \in Indices(s) |-> grids[i[1]][<<i[2], i[3]>>][i[4]]]]

\* a[k - 1]: the k-th element along the first axis
Sub(a, k) ==
    [kind |-> "ndarray", dtype |-> a.dtype, shape |-> Tail(a.shape),
     at |-> [i \in Indices(Tail(a.shape)) |-> a.at[<<k>> \o i]]]

\* a[:, :, 0]: a two-dimensional array, a[:, :, :1]: one channel
Channel0(a) ==
    LET s == <<a.shape[1], a.shape[2]>>
    IN  [kind |-> "ndarray", dtype |-> a.dtype, shape |-> s,
         at |-> [i \in Indices(s) |-> a.at[i \o <<1>>]]]

OneChannel(a) ==
    LET s == <<a.shape[1], a.shape[2], 1>>
    IN  [kind |-> "ndarray", dtype |-> a.dtype, shape |-> s,
         at |-> [i \in Indices(s) |-> a.at[<<i[1], i[2], 1>>]]]

\* grids a second batch element is taken from
Others == {g \in Grids : \A q \in DOMAIN g : g[q] = <<0, 0, 0>>}
          \cup {g \in Grids : \A q \in DOMAIN g : g[q] = <<200, 30, 30>>}

\* values passed as img_array: images of three dtypes, batches of one and
\* two images, an empty batch, a 2-D array, a one-channel array, an array of
\* a dtype cvtColor rejects, and an object that is no array
FeatureInputs ==
    {Sub(Batch(d, <<g>>), 1) : d \in {"uint8", "float32", "float64"}, g \in Grids}
    \cup {Batch("float32", <<g>>) : g \in Grids}
    \cup {Batch("float32", <<g, o>>) : g \in Grids, o \in Others}
    \cup {Batch("uint8", <<>>)}
    \cup {Channel0(Sub(Batch("uint8", <<g>>), 1)) : g \in Others}
    \cup {OneChannel(Sub(Batch("uint8", <<g>>), 1)) : g \in Others}
    \cup {Sub(Batch("int32", <<g>>), 1) : g \in Others}
    \cup {[kind |-> "object"]}

\* lines 113-116: the first element of a batch, the array itself otherwise
Unbatch_last(a) == IF Len(a.shape) = 4 THEN Sub(a, a.shape[1]) ELSE a

Unbatch(a) == IF Len(a.shape) = 4 THEN Sub(a, 1) ELSE a

\* lines 119-120: (img * 255).astype(np.uint8) for float arrays
ToUint8(a) ==
    IF a.dtype \in {"float32", "float64"}
    THEN [a EXCEPT !.dtype = "uint8",
                   !.at = [i \in DOMAIN a.at |->
                              ((a.at[i] * 255) \div 255) % 256]]
    ELSE a

\* lines 123-126: cv2.cvtColor(img, cv2.COLOR_RGB2BGR) for three channels
ToBGR(a) ==
    IF a.shape[3] = 3
    THEN [a EXCEPT !.at = [i \in DOMAIN a.at |->
                              a.at[<<i[1], i[2], 4 - i[3]>>]]]
    ELSE a

\* the pixel positions of an image, row by row
Positions(a) ==
    [k \in 1..(a.shape[1] * a.shape[2]) |->
        <<((k - 1) \div a.shape[2]) + 1, ((k - 1) % a.shape[2]) + 1>>]

\* line 129: cv2.cvtColor(img_bgr, cv2.COLOR_BGR2GRAY), the 8-bit fixed-point
\* weighting of OpenCV; the result is the row-by-row list of gray levels
ToGray(bgr) ==
    [k \in DOMAIN Positions(bgr) |->
        LET q == Positions(bgr)[k]
        IN  (bgr.at[q \o <<1>>] * 1868 + bgr.at[q \o <<2>>] * 9617
             + bgr.at[q \o <<3>>] * 4899 + 8192) \div 16384]

Max3(a, b, c) ==
    IF a >= b /\ a >= c THEN a ELSE IF b >= c THEN b ELSE c

Min3(a, b, c) ==
    IF a <= b /\ a <= c THEN a ELSE IF b <= c THEN b ELSE c

\* integer nearest to n/d for n >= 0, d > 0
Rounded(n, d) == (2 * n + d) \div (2 * d)

\* line 132: cv2.cvtColor(img_bgr, cv2.COLOR_BGR2HSV) of one pixel: hue in
\* 0..180, saturation and value in 0..255
HSVPixel(b, g, r) ==
    LET v == Max3(b, g, r)
        diff == v - Min3(b, g, r)
        deg == IF diff = 0 THEN 0
               ELSE IF v = r THEN (60 * (g - b)) \div diff
               ELSE IF v = g THEN 120 + (60 * (b - r)) \div diff
               ELSE 240 + (60 * (r - g)) \div diff
    IN  <<Rounded(IF deg < 0 THEN deg + 360 ELSE deg, 2),
          IF v = 0 THEN 0 ELSE Rounded(255 * diff, v),
          v>>

\* img_hsv[:, :, c - 1], row by row
HSVChannel(bgr, c) ==
    [k \in DOMAIN Positions(bgr) |->
        LET q == Positions(bgr)[k]
        IN  HSVPixel(bgr.at[q \o <<1>>], bgr.at[q \o <<2>>],
                     bgr.at[q \o <<3>>])[c]]

\* np.mean
np_mean(xs) == Rat(SumSeq(xs), Len(xs))

\* np.std, represented by its square: the variance of xs
np_std(xs) ==
    Rat(Len(xs) * SumSeq([k \in DOMAIN xs |-> xs[k] * xs[k]])
            - SumSeq(xs) * SumSeq(xs),
        Len(xs) * Len(xs))

\* line 146: np.sum(gray**2) / (gray.shape[0] * gray.shape[1]); gray is a
\* uint8 array, so each square is kept in 8 bits before the sum
texture_energy(gray) ==
    Rat(SumSeq([k \in DOMAIN gray |-> (gray[k] * gray[k]) % 256]), Len(gray))

\* Otsu's method as cv2.threshold computes it on 8-bit data: the level t
\* that maximises the between-class variance of the classes <= t and > t,
\* the lowest such level on ties, and 0 when no level separates two
\* non-empty classes.  The variance changes only at levels that occur, so
\* those are the candidates; variances are compared cross-multiplied.
OtsuLevel(gray) ==
    LET n == Len(gray)
        total == SumSeq(gray)
        c1(t) == Cardinality({k \in DOMAIN gray : gray[k] <= t})
        s1(t) == SumSeq([k \in DOMAIN gray |->
                            IF gray[k] <= t THEN gray[k] ELSE 0])
        a(t) == s1(t) * (n - c1(t)) - (total - s1(t)) * c1(t)
        w(t) == c1(t) * (n - c1(t))
        cand == {t \in {gray[k] : k \in DOMAIN gray} : c1(t) < n}
        best == {t \in cand :
                    \A u \in cand : a(u) * a(u) * w(t) <= a(t) * a(t) * w(u)}
    IN  IF cand = {} THEN 0
        ELSE CHOOSE t \in best : \A u \in best : t <= u

\* variant of Threshold: THRESH_BINARY, levels above the threshold are
\* foreground
Threshold_binary(gray, t) ==
    [k \in DOMAIN gray |-> IF gray[k] > t THEN 255 ELSE 0]

\* line 150: cv2.threshold(gray, 0, 255, THRESH_BINARY_INV + THRESH_OTSU)
\* with the Otsu level t: levels above t become 0, the others 255
Threshold(gray, t) ==
    [k \in DOMAIN gray |-> IF gray[k] > t THEN 0 ELSE 255]

\* what OpenCV measures on one contour: contourArea, arcLength, the width
\* and height of boundingRect, and the contourArea of convexHull
Contour(area, perimeter, w, h, hull_area) ==
    [area |-> area, perimeter |-> perimeter, w |-> w, h |-> h,
     hull_area |-> hull_area]

\* a single point, a segment, a square and a concave outline
Contours ==
    {Contour(0, 0, 1, 1, 0), Contour(0, 2, 2, 1, 0), Contour(1, 4, 2, 2, 1),
     Contour(3, 8, 3, 2, 4)}

MaxContours == 2

\* the contour lists findContours can give for a mask with foreground
ContourLists ==
    UNION {[1..n -> Contours] : n \in 1..MaxContours}

\* line 153: cv2.findContours(thresh, RETR_EXTERNAL, ...): no contour for a
\* mask without a non-zero pixel, the outlines found otherwise
findContours(thresh, found) ==
    IF \E k \in DOMAIN thresh : thresh[k] # 0 THEN found ELSE <<>>

\* line 158: max(contours, key=cv2.contourArea), the first of largest area
Largest(contours) ==
    contours[CHOOSE k \in DOMAIN contours :
                /\ \A j \in DOMAIN contours :
                       contours[j].area <= contours[k].area
                /\ \A j \in 1..(k - 1) :
                       contours[j].area < contours[k].area]

\* variant of Circularity: the division is made without the perimeter test
Circularity_unguarded(c) == Rat(4 * c.area, c.perimeter * c.perimeter)

\* lines 163-166: 4 * pi * area / perimeter ** 2, in units of pi, and 0 for
\* a perimeter of 0
Circularity(c) ==
    IF c.perimeter > 0
    THEN Rat(4 * c.area, c.perimeter * c.perimeter)
    ELSE Zero

\* lines 156-179: the five shape values; a fraction with den 0 stands for a
\* division by zero
ShapeOf(contours) ==
    IF Len(contours) > 0
    THEN LET c == Largest(contours)
         IN  [area |-> Rat(c.area, 1),
              perimeter |-> Rat(c.perimeter, 1),
              circularity |-> Circularity(c),
              aspect_ratio |-> IF c.h > 0 THEN Rat(c.w, c.h) ELSE Zero,
              solidity |-> IF c.hull_area > 0
                           THEN Rat(c.area, c.hull_area) ELSE Zero]
    ELSE [area |-> Zero, perimeter |-> Zero, circularity |-> Zero,
          aspect_ratio |-> Zero, solidity |-> Zero]

\* the gray levels extract_features works on (lines 113-129), for an input
\* those lines accept
GrayOf(img_array) == ToGray(ToBGR(ToUint8(Unbatch(img_array))))

\* lines 111-205: the try block; found is what findContours reports when
\* the mask has foreground
extract_try(img_array, found) ==
    IF img_array.kind # "ndarray"
    THEN [exc |-> "AttributeError"]
    ELSE IF Len(img_array.shape) = 4 /\ img_array.shape[1] = 0
    THEN [exc |-> "IndexError"]
    ELSE IF Len(Unbatch(img_array).shape) < 3
    THEN [exc |-> "IndexError"]
    ELSE IF \/ ToUint8(Unbatch(img_array)).dtype # "uint8"
            \/ Unbatch(img_array).shape[3] \notin {3, 4}
    THEN [exc |-> "cv2.error"]
    ELSE LET img_bgr == ToBGR(ToUint8(Unbatch(img_array)))
             gray == ToGray(img_bgr)
             thresh == Threshold(gray, OtsuLevel(gray))
             shape == ShapeOf(findContours(thresh, found))
         IN  IF \E f \in DOMAIN shape : shape[f].den = 0
             THEN [exc |-> "ZeroDivisionError"]
             ELSE [exc |-> "",
                   ret |->
                     [color |->
                        [hue_avg |-> np_mean(HSVChannel(img_bgr, 1)),
                         saturation_avg |-> np_mean(HSVChannel(img_bgr, 2)),
                         value_avg |-> np_mean(HSVChannel(img_bgr, 3)),
                         hue_std |-> np_std(HSVChannel(img_bgr, 1)),
                         saturation_std |-> np_std(HSVChannel(img_bgr, 2)),
                         value_std |-> np_std(HSVChannel(img_bgr, 3))],
                      texture |->
                        [contrast |-> np_std(gray),
                         energy |-> texture_energy(gray)],
                      shape |-> shape]]

EmptyMap == [k \in {} |-> 0]

\* variant of extract_except: the exception is raised again
extract_except_reraise(t) ==
    IF t.exc = "" THEN [raised |-> FALSE, ret |-> t.ret]
    ELSE [raised |-> TRUE, ret |-> NoneVal]

\* lines 207-214: except Exception returns empty mappings and the message
extract_except(t) ==
    IF t.exc = "" THEN [raised |-> FALSE, ret |-> t.ret]
    ELSE [raised |-> FALSE,
          ret |-> [color |-> EmptyMap, texture |-> EmptyMap,
                   shape |-> EmptyMap, error |-> t.exc]]

extract_features(img_array, found) ==
    extract_except(extract_try(img_array, found))


(***************************************************************************)
(* routes/diagnosis.py: upload (lines 41-91) and api_upload (115-161).     *)
(* A filename is a sequence of characters; "png", "exe" and the like stand *)
(* for the letters of an extension, "#" for a character secure_filename    *)
(* removes.  session is the client's session, uploads the files saved in   *)
(* UPLOAD_FOLDER, response the answer to the request handled last.         *)
(***************************************************************************)
\* config.py line 20
ALLOWED_EXTENSIONS == {"png", "jpg", "jpeg"}

\* str.lower
Lower(c) == IF c = "PNG" THEN "png" ELSE c

\* position of the last '.', 0 when there is none
LastDot(name) ==
    IF \E i \in DOMAIN name : name[i] = "."
    THEN CHOOSE i \in DOMAIN name :
            name[i] = "." /\ \A j \in DOMAIN name : name[j] = "." => j <= i
    ELSE 0

\* utils/helpers.py: the name has a '.' and what follows the last one is,
\* in lower case, one of the allowed extensions
allowed_file(filename) ==
    /\ LastDot(filename) > 0
    /\ LastDot(filename) = Len(filename) - 1
    /\ Lower(filename[Len(filename)]) \in ALLOWED_EXTENSIONS

RECURSIVE StripDots(_)
StripDots(name) ==
    IF name = <<>> THEN name
    ELSE IF Head(name) = "." THEN StripDots(Tail(name))
    ELSE IF name[Len(name)] = "." THEN StripDots(SubSeq(name, 1, Len(name) - 1))
    ELSE name

\* werkzeug's secure_filename: characters outside [A-Za-z0-9_.-] are
\* dropped, then leading and trailing dots are stripped
secure_filename(name) ==
    StripDots(SelectSeq(name, LAMBDA c : c # "#"))

\* os.path.splitext(name)[1]: from the last '.', unless only dots come
\* before it
splitext1(name) ==
    IF \E j \in 1..(LastDot(name) - 1) : name[j] # "."
    THEN SubSeq(name, LastDot(name), Len(name))
    ELSE <<>>

\* filenames sent by clients
FileNames ==
    {<<>>, <<"a", ".", "exe">>, <<"a", ".", "png">>, <<"#", ".", "png">>}

\* uploaded files: one that Image.open rejects, an RGB image and a
\* grayscale image with an alpha channel
UploadedFiles ==
    {f \in Files :
        f.ok =>
          /\ f.img.mode \in {"RGB", "LA"}
          /\ \A y \in 1..SrcH, x \in 1..SrcW :
                 f.img.px[y][x] = Pixel(f.img.mode, FALSE)}

\* the requests: without a file part, or with a file of some name; the
\* content of the file is varied under one of the names
Requests ==
    {[has_file |-> FALSE, filename |-> <<>>, file |-> [ok |-> FALSE]]}
    \cup {r \in [has_file : {TRUE}, filename : FileNames, file : UploadedFiles] :
             \/ r.filename = <<"a", ".", "png">>
             \/ r.file.ok /\ r.file.img.mode = "RGB"}

\* preprocess_image's default target_size=(180, 180), a square of the
\* largest side the model explores, and the (1, h, w, 3) input the network
\* is built for
DefaultTarget == <<MaxDim, MaxDim>>

InputShape == <<1, MaxDim, MaxDim, 3>>

\* str(uuid.uuid4()) followed by the extension: the identifier is one no
\* stored file has
UniqueName(ext) == [id |-> Len(uploads) + 1, ext |-> ext]

\* a response: status, redirect target or JSON body, flashed message, and
\* what the handler did on the way
Response(route, req, branch, status, location, flash, json) ==
    [route |-> route, req |-> req, branch |-> branch, status |-> status,
     location |-> location, flash |-> flash, json |-> json,
     saved |-> branch \in {"success", "exception"},
     preprocessed |-> branch \in {"success", "exception"},
     predicted |-> branch = "success" \/ (branch = "exception" /\ req.file.ok)]

NoJson == [success |-> FALSE, error |-> "", result |-> NoneVal]

\* lines 45-54 and 89-91: the three rejections of upload
UploadReject(req, branch) ==
    Response("upload", req, branch, 302, "diagnosis.index",
             CASE branch = "no_file_part" -> "No file part"
               [] branch = "no_filename" -> "No selected file"
               [] OTHER -> "File type not allowed. Please upload a JPG, JPEG, or PNG image.",
             NoJson)

\* lines 119-126 and 157-161: the three rejections of api_upload
ApiReject(req, branch) ==
    Response("api_upload", req, branch, 400, "", "",
             [success |-> FALSE,
              error |-> CASE branch = "no_file_part" -> "No file part"
                          [] branch = "no_filename" -> "No selected file"
                          [] OTHER -> "File type not allowed. Please upload a JPG, JPEG, or PNG image.",
              result |-> NoneVal])

\* lines 85-88: the except branch of upload
UploadExcept(req) ==
    Response("upload", req, "exception", 302, "diagnosis.index",
             "An error occurred during processing. Please try again.", NoJson)

\* lines 154-156: the except branch of api_upload returns str(e)
ApiExcept(req, e) ==
    Response("api_upload", req, "exception", 500, "", "",
             [success |-> FALSE, error |-> e, result |-> NoneVal])

Reject(route, req, branch) ==
    IF route = "upload" THEN UploadReject(req, branch)
    ELSE ApiReject(req, branch)

Except(route, req, e) ==
    IF route = "upload" THEN UploadExcept(req) ELSE ApiExcept(req, e)

\* lines 45-68 and 119-140: the checks on the request, the save of the file
\* and preprocess_image; an accepted, preprocessed upload goes on into
\* predict_image and has no response yet (response is None until it returns)
Receive(t, route) ==
    /\ thr[t].pc = "idle"
    /\ calls.started < MaxCalls
    /\ calls' = [calls EXCEPT !.started = @ + 1]
    /\ \E req \in Requests :
         IF ~req.has_file
         THEN /\ response' = Reject(route, req, "no_file_part")
              /\ UNCHANGED <<thr, uploads>>
         ELSE IF req.filename = <<>>
         THEN /\ response' = Reject(route, req, "no_filename")
              /\ UNCHANGED <<thr, uploads>>
         ELSE IF ~allowed_file(req.filename)
         THEN /\ response' = Reject(route, req, "not_allowed")
              /\ UNCHANGED <<thr, uploads>>
         ELSE LET original_filename == secure_filename(req.filename)
                  file_extension == splitext1(original_filename)
                  unique_filename == UniqueName(file_extension)
                  preprocessed_image == preprocess_image(req.file, DefaultTarget)
              IN  /\ uploads' = Append(uploads, unique_filename)
                  /\ IF preprocessed_image.raised
                     THEN /\ response' = Except(route, req, "UnidentifiedImageError")
                          /\ thr' = thr
                     ELSE /\ response' = NoneVal
                          /\ thr' = [thr EXCEPT ![t] =
                                 [IdleThread EXCEPT
                                    !.pc = "l21", !.route = route, !.req = req,
                                    !.unique_filename = unique_filename,
                                    !.original_filename = original_filename,
                                    !.tensor_ok =
                                       preprocessed_image.value.shape = InputShape]]
    /\ UNCHANGED <<call, config, _model, objs, session>>

upload(t) == Receive(t, "upload")

api_upload(t) == Receive(t, "api_upload")

\* lines 71-88: predict_image is back; the result goes into the session and
\* the client is sent to the results page
upload_return(t) ==
    /\ thr[t].pc = "l74"
    /\ thr[t].route = "upload"
    /\ IF thr[t].raised
       THEN /\ response' = UploadExcept(thr[t].req)
            /\ session' = session
       ELSE /\ session' =
                 [has |-> TRUE,
                  diagnosis_result |->
                    [filename |-> thr[t].unique_filename,
                     original_filename |-> thr[t].original_filename,
                     prediction |-> thr[t].result.prediction,
                     confidence |-> thr[t].result.confidence,
                     timestamp |-> calls.started]]
            /\ response' = Response("upload", thr[t].req, "success", 302,
                                "diagnosis.results", "", NoJson)
    /\ thr' = [thr EXCEPT ![t] = IdleThread]
    /\ UNCHANGED <<call, config, _model, objs, uploads, calls>>

\* lines 146-147: the result dict with the two filenames added
WithNames(r, unique_filename, original_filename) ==
    [k \in DOMAIN r \cup {"filename", "original_filename"} |->
        IF k = "filename" THEN unique_filename
        ELSE IF k = "original_filename" THEN original_filename
        ELSE r[k]]

\* variant of api_upload_return: the API handler also stores its result in
\* the session, as upload does
api_upload_return_storesResult(t) ==
    /\ thr[t].pc = "l74"
    /\ thr[t].route = "api_upload"
    /\ response' =
         IF thr[t].raised
         THEN ApiExcept(thr[t].req, thr[t].exc)
         ELSE Response("api_upload", thr[t].req, "success", 200, "", "",
                       [success |-> TRUE, error |-> "",
                        result |-> WithNames(thr[t].result,
                                             thr[t].unique_filename,
                                             thr[t].original_filename)])
    /\ session' =
         IF thr[t].raised THEN session
         ELSE [has |-> TRUE,
               diagnosis_result |->
                 [filename |-> thr[t].unique_filename,
                  original_filename |-> thr[t].original_filename,
                  prediction |-> thr[t].result.prediction,
                  confidence |-> thr[t].result.confidence,
                  timestamp |-> calls.started]]
    /\ thr' = [thr EXCEPT ![t] = IdleThread]
    /\ UNCHANGED <<call, config, _model, objs, uploads, calls>>

\* lines 143-156: predict_image is back; its result, with the two filenames
\* added, is the JSON body
api_upload_return(t) ==
    /\ thr[t].pc = "l74"
    /\ thr[t].route = "api_upload"
    /\ response' =
         IF thr[t].raised
         THEN ApiExcept(thr[t].req, thr[t].exc)
         ELSE Response("api_upload", thr[t].req, "success", 200, "", "",
                       [success |-> TRUE, error |-> "",
                        result |-> WithNames(thr[t].result,
                                             thr[t].unique_filename,
                                             thr[t].original_filename)])
    /\ thr' = [thr EXCEPT ![t] = IdleThread]
    /\ UNCHANGED <<call, config, _model, objs, session, uploads, calls>>

\* str.title() on the names results() can be given: a class label or the
\* fallback's 'unknown'
Title(name) ==
    CASE name = "actinic keratosis" -> "Actinic Keratosis"
      [] name = "basal cell carcinoma" -> "Basal Cell Carcinoma"
      [] name = "dermatofibroma" -> "Dermatofibroma"
      [] name = "melanoma" -> "Melanoma"
      [] name = "nevus" -> "Nevus"
      [] name = "pigmented benign keratosis" -> "Pigmented Benign Keratosis"
      [] name = "seborrheic keratosis" -> "Seborrheic Keratosis"
      [] name = "squamous cell carcinoma" -> "Squamous Cell Carcinoma"
      [] name = "vascular lesion" -> "Vascular Lesion"
      [] name = "unknown" -> "Unknown"

\* lines 164-214: the hardcoded table, looked up by the lower-cased name;
\* a name not in the table gets the default information
get_condition_info(condition_name) ==
    CASE condition_name = "actinic keratosis" ->
            [name |-> "Actinic Keratosis", severity |-> "Moderate",
             learn_more_url |-> "https://www.nhs.uk/conditions/actinic-keratoses"]
      [] condition_name = "basal cell carcinoma" ->
            [name |-> "Basal Cell Carcinoma", severity |-> "High",
             learn_more_url |-> "https://www.mayoclinic.org/diseases-conditions/basal-cell-carcinoma/symptoms-causes/syc-20354187"]
      [] condition_name = "melanoma" ->
            [name |-> "Melanoma", severity |-> "Very High",
             learn_more_url |-> "https://www.mayoclinic.org/diseases-conditions/melanoma/symptoms-causes/syc-20374884"]
      [] OTHER ->
            [name |-> Title(condition_name), severity |-> "Unknown",
             learn_more_url |-> "education.conditions"]

\* lines 216-247: the common recommendations followed by the specific ones
generate_recommendations(condition_name) ==
    LET common_recommendations ==
            <<"Schedule an appointment with a dermatologist for a professional evaluation",
              "Take clear photos of the affected area to show your doctor",
              "Protect your skin from sun exposure and use SPF 30+ sunscreen daily",
              "Perform regular skin self-examinations">>
        specific_recs ==
            CASE condition_name = "actinic keratosis" ->
                    <<"Avoid direct sun exposure, especially during peak hours (10 AM to 4 PM)",
                      "Use skin moisturizers regularly to reduce dryness">>
              [] condition_name = "basal cell carcinoma" ->
                    <<"Seek medical attention within the next 2-3 weeks",
                      "Avoid picking at or irritating the lesion">>
              [] condition_name = "melanoma" ->
                    <<"Seek medical attention as soon as possible (within 1 week)",
                      "Check for any other suspicious spots on your skin">>
              [] OTHER -> <<>>
    IN  common_recommendations \o specific_recs

\* what results() answers: the rendered template with its three arguments,
\* or the redirect to the upload page
ResultsResponse(branch, status, location, flash, result, info, recs) ==
    [route |-> "results", req |-> NoneVal, branch |-> branch,
     status |-> status, location |-> location, flash |-> flash,
     json |-> NoJson, saved |-> FALSE, preprocessed |-> FALSE,
     predicted |-> FALSE,
     template |-> IF branch = "rendered" THEN "results.html" ELSE "",
     result |-> result, condition_info |-> info,
     recommendations |-> recs]

\* variant of results: the membership test on the session is skipped and a
\* page is rendered in every case
results_noSessionCheck(t) ==
    /\ thr[t].pc = "idle"
    /\ LET result == IF session.has THEN session.diagnosis_result
                     ELSE [filename |-> NoneVal, original_filename |-> <<>>,
                           prediction |-> "unknown", confidence |-> 0,
                           timestamp |-> 0]
           condition_info == get_condition_info(result.prediction)
           recommendations == generate_recommendations(result.prediction)
       IN  response' = ResultsResponse("rendered", 200, "", "", result,
                           condition_info, recommendations)
    /\ UNCHANGED <<call, config, _model, objs, thr, calls, session, uploads>>

\* lines 93-113: GET /diagnose/results
results(t) ==
    /\ thr[t].pc = "idle"
    /\ IF ~session.has
       THEN response' = ResultsResponse("no_result", 302, "diagnosis.index",
                            "No diagnosis results found. Please upload an image first.",
                            NoneVal, NoneVal, <<>>)
       ELSE LET result == session.diagnosis_result
                condition_info == get_condition_info(result.prediction)
                recommendations == generate_recommendations(result.prediction)
            IN  response' = ResultsResponse("rendered", 200, "", "", result,
                                condition_info, recommendations)
    /\ UNCHANGED <<call, config, _model, objs, thr, calls, session, uploads>>

\* the steps of load_model and predict_image a request runs through
Run(t) ==
    \/ L21(t)
    \/ L33(t)
    \/ L40(t)
    \/ L54(t)
    \/ L55(t)
    \/ L60(t)
    \/ L65(t)
    \/ L67(t)
    \/ L71(t)
    \/ L102(t)

(***************************************************************************)
(* Direct calls of the functions with inputs drawn from bounded sets;       *)
(* call holds the last such call, its arguments and what it gave.          *)
(* The functions keep no state between calls, so one call of each is       *)
(* explored from the initial state; predict_image is followed by a second  *)
(* call so that two of its results can be compared.                        *)
(***************************************************************************)
NoCall == [fn |-> "none"]

Preprocess ==
    /\ call = NoCall
    /\ \E file \in Files, target_size \in TargetSizes :
         call' = [fn |-> "preprocess_image", file |-> file,
                  target_size |-> target_size,
                  out |-> preprocess_image(file, target_size)]
    /\ UNCHANGED <<session, uploads, response, config, _model, objs, thr, calls>>

Classes == {"melanoma", "nevus"}

GroqCall ==
    /\ call = NoCall
    /\ \E predicted_class \in Classes, confidence \in Confidences,
          resp \in Responses :
         call' = [fn |-> "get_groq_analysis", confidence |-> confidence,
                  resp |-> resp,
                  out |-> get_groq_analysis(config.GROQ_API_KEY,
                                            predicted_class, confidence, resp)]
    /\ UNCHANGED <<session, uploads, response, config, _model, objs, thr, calls>>

\* what load_model can hand to predict_image: an exception, or a model of
\* some kind with some weights
Loads ==
    {[raised |-> TRUE, kind |-> "none", out |-> <<>>]}
    \cup {[raised |-> FALSE, kind |-> k, out |-> o] :
             k \in {"h5", "saved"}, o \in OutputsAny}
    \cup {[raised |-> FALSE, kind |-> "dummy", out |-> o] : o \in Outputs9}

\* a call of predict_image; prev keeps the provenance and the result of the
\* predict_image call right before it, if any
PredictCall ==
    /\ call = NoCall \/ (call.fn = "predict_image" /\ ~call.prev.called)
    /\ \E loaded \in Loads, tensor_ok \in BOOLEAN, resp \in PredictResponses :
         call' = [fn |-> "predict_image", loaded |-> loaded,
                  tensor_ok |-> tensor_ok, resp |-> resp,
                  out |-> predict_image(loaded, tensor_ok,
                                        config.GROQ_API_KEY, resp),
                  prev |-> IF call.fn = "predict_image"
                           THEN [called |-> TRUE, kind |-> call.loaded.kind,
                                 ret |-> call.out.ret]
                           ELSE [called |-> FALSE]]
    /\ UNCHANGED <<session, uploads, response, config, _model, objs, thr, calls>>

\* a call of extract_features
FeaturesCall ==
    /\ call = NoCall
    /\ \E img_array \in FeatureInputs, found \in ContourLists :
         call' = [fn |-> "extract_features", img_array |-> img_array,
                  found |-> found,
                  out |-> extract_features(img_array, found)]
    /\ UNCHANGED <<session, uploads, response, config, _model, objs, thr, calls>>

(***************************************************************************)
(* Specifications.                                                         *)
(***************************************************************************)
Init ==
    /\ call = NoCall
    /\ config \in {[GROQ_API_KEY |-> k] : k \in {"", "gsk"}}
    /\ _model = None
    /\ objs = <<>>
    /\ thr = [t \in Threads |-> IdleThread]
    /\ calls = [started |-> 0, loadSeqs |-> 0]
    /\ session = [has |-> FALSE]
    /\ uploads = <<>>
    /\ response = NoneVal

\* requests served one after the other
Next ==
    \E t \in Threads :
        /\ \A u \in Threads \ {t} : thr[u].pc \in {"idle", "done"}
        /\ Step(t)

Spec == Init /\ [][Next]_vars

\* requests served by concurrent threads of the development server
NextConc == \E t \in Threads : Step(t)

SpecConc == Init /\ [][NextConc]_vars

\* upload requests served one after the other, start to finish, by one
\* worker
NextWeb ==
    LET t == CHOOSE u \in Threads : \A v \in Threads : u <= v
    IN  \/ upload(t)
        \/ api_upload(t)
        \/ Run(t)
        \/ upload_return(t)
        \/ api_upload_return(t)
        \/ results(t)

SpecWeb == Init /\ [][NextWeb]_vars

\* the stateless functions called directly
NextCalls == Preprocess \/ GroqCall \/ PredictCall \/ FeaturesCall

SpecCalls == Init /\ [][NextCalls]_vars

TypeOK ==
    /\ _model \in 0..Len(objs)
    /\ \A t \in Threads : thr[t].ret \in 0..Len(objs)
    /\ calls.started \in 0..MaxCalls

(***************************************************************************)
(* Properties.                                                             *)
(***************************************************************************)
HasError(v) == v.py = "dict" /\ "error" \in v.keys

InUnit(x) == 0 <= x.num /\ x.num <= x.den

\* C1: for a decodable file and target_size (h, w), preprocess_image returns
\* an array of shape (1, h, w, 3) whose values all lie in [0.0, 1.0]
C1_ShapeAndRange ==
    (call.fn = "preprocess_image" /\ call.file.ok) =>
        /\ ~call.out.raised
        /\ call.out.value.shape =
               <<1, call.target_size[1], call.target_size[2], 3>>
        /\ \A i \in DOMAIN call.out.value.at : InUnit(call.out.value.at[i])

RaisesInside(c) ==
    \/ c.loaded.raised
    \/ ~c.tensor_ok
    \/ Len(c.loaded.out) = 0
    \/ argmax(c.loaded.out) >= Len(class_labels)
    \/ Len(c.loaded.out) < Len(class_labels)

\* C3: predict_image never propagates an exception; when a step inside it
\* raises it returns prediction 'unknown', confidence 0.0, class_index -1,
\* an empty all_probabilities mapping and an 'error' message
C3_NoPropagation ==
    call.fn = "predict_image" =>
        /\ ~call.out.raised
        /\ RaisesInside(call) =>
              /\ call.out.ret.prediction = "unknown"
              /\ call.out.ret.confidence = 0
              /\ call.out.ret.class_index = -1
              /\ call.out.ret.all_probabilities = {}
              /\ "error" \in DOMAIN call.out.ret

C3_Witness ==
    /\ call.fn = "predict_image"
    /\ call.loaded.raised
    /\ call.out.ret.prediction = "unknown"
    /\ "error" \in DOMAIN call.out.ret

\* thread t is past load_model and load_model returned a model
Returned(t) == thr[t].pc \in {"l102", "done"} /\ ~thr[t].load_raised

\* C4: under any interleaving of concurrent requests the load sequence runs
\* at most once in the process and every request obtains the same model
\* object
C4_LoadedOnce ==
    /\ calls.loadSeqs <= 1
    /\ \A t, u \in Threads :
          (Returned(t) /\ Returned(u)) => thr[t].ret = thr[u].ret

\* C5: every call of load_model that returns a model leaves that same model
\* in the cache _model, on every path
C5_ReturnedIsCached ==
    \A t \in Threads : (thr[t].pc = "l102" /\ ~thr[t].load_raised) =>
        _model = thr[t].ret

Failed(log, step) == \E i \in 1..Len(log) : log[i].step = step /\ ~log[i].ok

\* the strategies appear in the order .h5, SavedModel, placeholder
LogOrder(log) ==
    /\ log # <<>> => log[1].step = "h5_load"
    /\ \A i \in 1..Len(log) :
          /\ log[i].step = "saved_load" =>
                /\ log[i - 1] = [step |-> "dir_exists", ok |-> TRUE]
                /\ \E j \in 1..(i - 1) :
                      log[j].step \in {"h5_load", "h5_compile"} /\ ~log[j].ok
          /\ log[i].step \in {"dummy_l60", "dummy_l65", "dummy_l71"} =>
                \E j \in 1..(i - 1) : log[j].step = "dir_exists"
          /\ log[i].step = "h5_load" => i = 1

\* a step of thread t that creates a placeholder model
CreatesDummy(t) ==
    /\ thr'[t] # thr[t]
    /\ Len(objs') = Len(objs) + 1
    /\ objs'[Len(objs')].kind = "dummy"

PlaceholderOnlyAfterFailures ==
    \A t \in Threads : CreatesDummy(t) =>
        /\ Failed(thr[t].log, "h5_load") \/ Failed(thr[t].log, "h5_compile")
        /\ Failed(thr[t].log, "dir_exists") \/ Failed(thr[t].log, "saved_load")

CompiledH5Kept ==
    (_model # None /\ objs[_model].kind = "h5" /\ objs[_model].compiled) =>
        _model' = _model

C7_Distinguishable ==
    (/\ call.fn = "predict_image"
     /\ call.prev.called
     /\ call.out.ret.class_index # -1
     /\ call.prev.ret.class_index # -1
     /\ (call.loaded.kind = "dummy") # (call.prev.kind = "dummy"))
        => call.out.ret # call.prev.ret

\* C8: without a GROQ_API_KEY get_groq_analysis returns None, does not
\* raise and sends no HTTP request, whatever the class and the confidence,
\* and predict_image returns its result with additional_analysis = None
C8_NoKeyNoEnrichment ==
    config.GROQ_API_KEY = "" =>
        /\ call.fn = "get_groq_analysis" =>
              /\ ~call.out.raised
              /\ call.out.ret = NoneVal
              /\ call.out.posts = 0
        /\ call.fn = "predict_image" =>
              /\ call.out.posts = 0
              /\ call.out.exc = "" => call.out.ret.additional_analysis = NoneVal

C8_Witness ==
    /\ config.GROQ_API_KEY = ""
    /\ call.fn = "get_groq_analysis"
    /\ ~call.confidence.numeric
    /\ call.out.ret = NoneVal

\* the reply is a 200 response carrying a content string
HasContent(c) ==
    /\ c.fn = "get_groq_analysis"
    /\ config.GROQ_API_KEY # ""
    /\ c.confidence.numeric
    /\ c.resp.kind = "http"
    /\ c.resp.status = 200
    /\ c.resp.body.shape = "content"

\* C9: for a 200 response whose content is not valid JSON the function
\* returns the parse of the substring from the first '{' to the last '}'
\* when that parses, and an error marker in every other case, never None
C9_ParseOrError ==
    (HasContent(call) /\ ~json_loads(call.resp.body.content).ok) =>
        LET content == call.resp.body.content
            first == find(content, "{")
            last == rfind(content, "}")
            sub == Slice(content, first, last + 1)
        IN  IF first >= 0 /\ last > first /\ json_loads(sub).ok
            THEN call.out.ret = json_loads(sub).value
            ELSE HasError(call.out.ret)

\* C10: with a credential get_groq_analysis never raises; a non-200
\* response, a timeout, a connection error or a malformed body each give a
\* dict with an 'error' key
C10_FailuresGiveError ==
    (call.fn = "get_groq_analysis" /\ config.GROQ_API_KEY # "") =>
        /\ ~call.out.raised
        /\ (\/ call.resp.kind \in {"timeout", "connection_error"}
            \/ call.resp.status # 200
            \/ call.resp.body.shape \in
                  {"not_json", "no_choices", "no_message", "no_content",
                   "null_content"})
              => HasError(call.out.ret)

C10_Witness ==
    /\ call.fn = "get_groq_analysis"
    /\ config.GROQ_API_KEY # ""
    /\ call.confidence.numeric
    /\ call.resp.kind = "http"
    /\ call.resp.body.shape = "no_choices"
    /\ HasError(call.out.ret)

\* the fields of a predict_image result other than additional_analysis
PrimaryFields(r) ==
    [prediction |-> r.prediction, confidence |-> r.confidence,
     class_index |-> r.class_index,
     all_probabilities |-> r.all_probabilities]

\* C11: for the same model output, prediction, confidence, class_index and
\* all_probabilities of the predict_image result are the same whether the
\* enrichment is disabled, succeeds or gives an error marker
C11_EnrichmentIndependent ==
    call.fn = "predict_image" =>
        \A api_key \in {"", "gsk"}, resp \in PredictResponses :
            PrimaryFields(predict_image(call.loaded, call.tensor_ok,
                                        api_key, resp).ret)
                = PrimaryFields(call.out.ret)

C11_Witness ==
    /\ call.fn = "predict_image"
    /\ config.GROQ_API_KEY # ""
    /\ call.out.ret.class_index >= 0
    /\ HasError(call.out.ret.additional_analysis)
    /\ predict_image(call.loaded, call.tensor_ok, "", call.resp).ret
           .additional_analysis = NoneVal

\* a value extract_features cannot process: no array, a rank other than 3
\* or 4, an empty batch, no channel axis of size 3, an unsupported dtype
BadInput(a) ==
    \/ a.kind # "ndarray"
    \/ Len(a.shape) \notin {3, 4}
    \/ a.shape[1] = 0
    \/ a.shape[Len(a.shape)] # 3
    \/ a.dtype \notin {"uint8", "float32", "float64"}

\* the dict of the except branch: empty mappings and an error message
IsErrorFeatures(r) ==
    /\ DOMAIN r = {"color", "texture", "shape", "error"}
    /\ DOMAIN r.color = {}
    /\ DOMAIN r.texture = {}
    /\ DOMAIN r.shape = {}
    /\ r.error # ""

\* C12: extract_features raises for no input value; for a value it cannot
\* process (non-array, wrong rank, no channel axis, unsupported dtype) it
\* returns empty 'color', 'texture' and 'shape' mappings and an 'error'
\* message, and every other input gives the three filled mappings
C12_NeverRaises ==
    call.fn = "extract_features" =>
        /\ ~call.out.raised
        /\ IF BadInput(call.img_array)
           THEN IsErrorFeatures(call.out.ret)
           ELSE DOMAIN call.out.ret = {"color", "texture", "shape"}

C12_Witness ==
    /\ call.fn = "extract_features"
    /\ call.img_array.kind = "ndarray"
    /\ Len(call.img_array.shape) = 2
    /\ IsErrorFeatures(call.out.ret)

\* a call of extract_features on an image whose pixels all have one gray
\* level
UniformCall ==
    /\ call.fn = "extract_features"
    /\ ~BadInput(call.img_array)
    /\ \A k \in DOMAIN GrayOf(call.img_array) :
           GrayOf(call.img_array)[k] = GrayOf(call.img_array)[1]

\* no contour is found and the five shape values are 0, without an error
NoShape ==
    LET gray == GrayOf(call.img_array)
        r == call.out.ret
    IN  /\ findContours(Threshold(gray, OtsuLevel(gray)), call.found) = <<>>
        /\ ~call.out.raised
        /\ DOMAIN r = {"color", "texture", "shape"}
        /\ \A f \in {"area", "perimeter", "circularity", "aspect_ratio",
                     "solidity"} : r.shape[f].num = 0

\* C13 as stated: for every uniform image, black included, no foreground
\* contour is found and area, perimeter, circularity, aspect_ratio and
\* solidity are all 0
C13_UniformHasNoShape == UniformCall => NoShape

\* C13: for every uniform image of a gray level above 0 (white or any gray,
\* not black) the inverse-binary threshold leaves no foreground contour and
\* extract_features returns area, perimeter, circularity, aspect_ratio and
\* solidity all 0 without raising
C13_BrightUniformHasNoShape ==
    (UniformCall /\ GrayOf(call.img_array)[1] > 0) => NoShape

C13_Witness ==
    /\ UniformCall
    /\ GrayOf(call.img_array)[1] = 255
    /\ call.out.ret.shape.aspect_ratio = Zero

\* the contours extract_features finds in the image of the call: none, or
\* those of call.found
FoundContours ==
    LET gray == GrayOf(call.img_array)
    IN  findContours(Threshold(gray, OtsuLevel(gray)), call.found)

\* C14: the shape computation divides by no zero: with no contour the five
\* values are 0; otherwise they are those of a contour of largest area, with
\* circularity 0 for a perimeter of 0, aspect_ratio 0 for a bounding-box
\* height of 0 and solidity 0 for a convex-hull area of 0
C14_ShapeGuards ==
    (call.fn = "extract_features" /\ ~BadInput(call.img_array)) =>
        LET r == call.out.ret
        IN  /\ ~call.out.raised
            /\ DOMAIN r = {"color", "texture", "shape"}
            /\ IF FoundContours = <<>>
               THEN \A f \in DOMAIN r.shape : r.shape[f] = Zero
               ELSE \E k \in DOMAIN call.found :
                      LET c == call.found[k]
                      IN  /\ \A j \in DOMAIN call.found :
                                 call.found[j].area <= c.area
                          /\ r.shape.area = Rat(c.area, 1)
                          /\ r.shape.perimeter = Rat(c.perimeter, 1)
                          /\ r.shape.circularity =
                                 IF c.perimeter = 0 THEN Zero
                                 ELSE Rat(4 * c.area,
                                          c.perimeter * c.perimeter)
                          /\ r.shape.aspect_ratio =
                                 IF c.h = 0 THEN Zero ELSE Rat(c.w, c.h)
                          /\ r.shape.solidity =
                                 IF c.hull_area = 0 THEN Zero
                                 ELSE Rat(c.area, c.hull_area)

C14_Witness ==
    /\ call.fn = "extract_features"
    /\ ~BadInput(call.img_array)
    /\ FoundContours # <<>>
    /\ Len(call.found) = 2
    /\ call.found[1].perimeter = 0
    /\ call.found[2].area = 0
    /\ call.out.ret.shape.circularity = Zero
    /\ call.out.ret.shape.solidity = Zero
    /\ call.out.ret.shape.aspect_ratio = Rat(1, 1)

\* C15: texture 'energy' is the exact sum over all pixels of the squared
\* gray level (squares up to 65025, not reduced to 8 bits) divided by the
\* pixel count
C15_EnergyExact ==
    (call.fn = "extract_features" /\ ~BadInput(call.img_array)) =>
        LET gray == GrayOf(call.img_array)
        IN  call.out.ret.texture.energy =
                Rat(SumSeq([k \in DOMAIN gray |-> gray[k] * gray[k]]),
                    Len(gray))

\* C16: for a batched 4-D input extract_features returns what it returns
\* for the first element of the batch passed unbatched, whatever the other
\* elements are
C16_BatchIsFirstElement ==
    (/\ call.fn = "extract_features"
     /\ call.img_array.kind = "ndarray"
     /\ Len(call.img_array.shape) = 4
     /\ call.img_array.shape[1] >= 1) =>
        call.out = extract_features(Sub(call.img_array, 1), call.found)

C16_Witness ==
    /\ call.fn = "extract_features"
    /\ call.img_array.kind = "ndarray"
    /\ Len(call.img_array.shape) = 4
    /\ call.img_array.shape[1] = 2
    /\ Sub(call.img_array, 1) # Sub(call.img_array, 2)
    /\ DOMAIN call.out.ret = {"color", "texture", "shape"}
    /\ call.out.ret # extract_features(Sub(call.img_array, 2), call.found).ret

\* no request is being handled
Quiet == \A t \in Threads : thr[t].pc = "idle"

\* the request the last response answers has no file part, an empty
\* filename, or a name whose extension is not allowed
Rejected(req) ==
    \/ ~req.has_file
    \/ req.filename = <<>>
    \/ LastDot(req.filename) = 0
    \/ Lower(req.filename[Len(req.filename)]) \notin {"png", "jpg", "jpeg"}

\* C17: both upload endpoints answer a request with a missing file part, an
\* empty filename or a disallowed extension with a 400-class status, and
\* then no file is saved, nothing is preprocessed and nothing predicted
C17_RejectsWith400 ==
    (response # NoneVal /\ Rejected(response.req)) =>
        /\ response.status \in 400..499
        /\ ~response.saved
        /\ ~response.preprocessed
        /\ ~response.predicted

\* the extension of a name as the client sent it: from the last '.'
ClientExtension(name) ==
    IF LastDot(name) = 0 THEN <<>>
    ELSE SubSeq(name, LastDot(name), Len(name))

\* C18: the file of every accepted upload is stored under an identifier
\* that no earlier stored file has, followed by the extension of the name
\* the client sent, also when sanitisation removes the base of that name
C18_StoredName ==
    (Quiet /\ response # NoneVal /\ response.saved) =>
        LET stored == uploads[Len(uploads)]
        IN  /\ \A j \in 1..(Len(uploads) - 1) : uploads[j].id # stored.id
            /\ stored.ext = ClientExtension(response.req.filename)

\* the texts of the exceptions raised inside a request
ExceptionTexts ==
    {"UnidentifiedImageError", "load_model", "ValueError", "IndexError"}

\* C19: no response of either upload endpoint carries the text of an
\* internal exception, in its flashed message or in its JSON body
C19_NoExceptionText ==
    response # NoneVal =>
        /\ response.flash \notin ExceptionTexts
        /\ response.json.error \notin ExceptionTexts
        /\ "error" \in DOMAIN response.json.result =>
               response.json.result.error \notin ExceptionTexts

\* the handler in thread t returns after predict_image caught an exception
\* of the inference
ReturnsAfterFailure(t) ==
    /\ thr[t].pc = "l74"
    /\ thr[t].exc # ""
    /\ thr'[t].pc = "idle"

\* C20: when inference fails for an accepted, preprocessed upload the
\* request ends as a success: upload stores prediction 'unknown' with
\* confidence 0.0 in the session and redirects to the results page,
\* api_upload answers success = true with the 'unknown' result, and neither
\* takes its except branch
C20_FailureIsSuccess ==
    [][\A t \in Threads :
          ReturnsAfterFailure(t) =>
             /\ response'.branch = "success"
             /\ IF thr[t].route = "upload"
                THEN /\ session'.has
                     /\ session'.diagnosis_result.prediction = "unknown"
                     /\ session'.diagnosis_result.confidence = 0
                     /\ session'.diagnosis_result.filename =
                            thr[t].unique_filename
                     /\ response'.status = 302
                     /\ response'.location = "diagnosis.results"
                ELSE /\ response'.status = 200
                     /\ response'.json.success
                     /\ response'.json.result.prediction = "unknown"
                     /\ response'.json.result.confidence = 0
                     /\ session' = session]_vars

C20_Witness ==
    /\ Quiet
    /\ response # NoneVal
    /\ response.route = "upload"
    /\ response.branch = "success"
    /\ response.req.file.ok
    /\ response.req.file.img.mode = "LA"
    /\ session.has
    /\ session.diagnosis_result.prediction = "unknown"
    /\ session.diagnosis_result.filename = uploads[Len(uploads)]

\* ---------------------------------------------------------------------------
\* C21: a failure of preprocess_image is re-raised to its caller, never
\* recovered inside it; when /diagnose/upload receives a file that passes the
\* name checks and cannot be decoded, the response is the generic
\* 'An error occurred during processing' redirect, no thread enters
\* predict_image (no load, no forward pass) and the session is left alone.
ReceivesUndecodable ==
    /\ uploads' # uploads
    /\ \/ \E t \in Threads :
            /\ thr[t].pc = "idle"
            /\ thr'[t].pc # "idle"
            /\ thr'[t].route = "upload"
            /\ ~thr'[t].req.file.ok
       \/ /\ thr' = thr
          /\ response'.route = "upload"
          /\ ~response'.req.file.ok

C21_PreprocessFailureIsGeneric ==
    [][ /\ \A ts \in TargetSizes :
               preprocess_image([ok |-> FALSE], ts).raised
        /\ ReceivesUndecodable =>
               /\ thr' = thr
               /\ calls'.loadSeqs = calls.loadSeqs
               /\ _model' = _model
               /\ objs' = objs
               /\ session' = session
               /\ response'.branch = "exception"
               /\ response'.status = 302
               /\ response'.location = "diagnosis.index"
               /\ response'.flash = UploadExcept(response'.req).flash
               /\ ~response'.predicted ]_vars

\* an undecodable upload was answered after an earlier upload had stored its
\* result in the session
C21_Witness ==
    /\ response # NoneVal
    /\ response.route = "upload"
    /\ response.branch = "exception"
    /\ ~response.req.file.ok
    /\ response.saved
    /\ ~response.predicted
    /\ session.has
    /\ \A t \in Threads : thr[t].pc = "idle"

\* ---------------------------------------------------------------------------
\* C22: the result of a successful upload carries the label, the confidence,
\* the per-class distribution and the enrichment payload on both output
\* paths: in the JSON body of /diagnose/api/upload, and in the result the
\* session hands to the results page.
ResultFields ==
    {"prediction", "confidence", "all_probabilities", "additional_analysis"}

C22_BothPathsCarryResult ==
    response # NoneVal =>
        /\ (/\ response.route = "api_upload"
            /\ response.branch = "success"
            /\ response.json.result.prediction # "unknown")
              => ResultFields \subseteq DOMAIN response.json.result
        /\ (/\ response.route = "results"
            /\ response.branch = "rendered"
            /\ response.result.prediction # "unknown")
              => ResultFields \subseteq DOMAIN response.result

\* ---------------------------------------------------------------------------
\* C23: within one process on the placeholder model with enrichment disabled,
\* two calls of predict_image with the same input tensor return the same
\* prediction, confidence, class_index and all_probabilities, whatever
\* happened in between.
OnPlaceholder(t) ==
    /\ thr[t].pc = "done"
    /\ ~thr[t].load_raised
    /\ objs[thr[t].ret].kind = "dummy"

Prediction(r) ==
    <<r.prediction, r.confidence, r.class_index, r.all_probabilities>>

C23_PlaceholderDeterministic ==
    config.GROQ_API_KEY = "" =>
        \A t, u \in Threads :
            (/\ OnPlaceholder(t)
             /\ OnPlaceholder(u)
             /\ thr[t].tensor_ok = thr[u].tensor_ok)
                => Prediction(thr[t].result) = Prediction(thr[u].result)

\* ---------------------------------------------------------------------------
\* C24: handling one upload performs no retry: each model-loading strategy
\* (.h5 file, SavedModel directory, placeholder) is attempted at most once,
\* at most one HTTP POST goes to the enrichment API, and a step that failed
\* is not attempted again.
Attempts(log, steps) ==
    Cardinality({i \in 1..Len(log) : log[i].step \in steps})

C24_NoRetry ==
    \A t \in Threads :
        thr[t].route # "" =>
            /\ Attempts(thr[t].log, {"h5_load"}) <= 1
            /\ Attempts(thr[t].log, {"saved_load"}) <= 1
            /\ Attempts(thr[t].log,
                        {"dummy_l60", "dummy_l65", "dummy_l71"}) <= 1
            /\ thr[t].posts <= 1

\* ---------------------------------------------------------------------------
\* C25: in any sequence of requests within one session, GET /diagnose/results
\* renders a result only if an earlier POST /diagnose/upload passed
\* validation, preprocessing and prediction, and otherwise redirects to the
\* upload page; the result rendered is the one written by the most recent
\* such upload.  Stated step by step: the session's result is written only
\* by an upload that returns from predict_image, with that upload's values,
\* and results() renders exactly what the session holds at that moment.
ResultsStep ==
    /\ response' # response
    /\ response' # NoneVal
    /\ response'.route = "results"

RendersSession ==
    ResultsStep =>
        IF session.has
        THEN /\ response'.branch = "rendered"
             /\ response'.status = 200
             /\ response'.template = "results.html"
             /\ response'.result = session.diagnosis_result
        ELSE /\ response'.branch = "no_result"
             /\ response'.status = 302
             /\ response'.location = "diagnosis.index"
             /\ response'.result = NoneVal

WrittenBySuccessfulUpload ==
    session' # session =>
        \E t \in Threads :
            /\ thr[t].pc = "l74"
            /\ thr[t].route = "upload"
            /\ thr[t].req.has_file
            /\ allowed_file(thr[t].req.filename)
            /\ thr[t].req.file.ok
            /\ ~thr[t].raised
            /\ thr'[t].pc = "idle"
            /\ response'.route = "upload"
            /\ response'.branch = "success"
            /\ session'.has
            /\ session'.diagnosis_result.filename = thr[t].unique_filename
            /\ session'.diagnosis_result.filename = uploads[Len(uploads)]
            /\ session'.diagnosis_result.prediction = thr[t].result.prediction
            /\ session'.diagnosis_result.confidence = thr[t].result.confidence

C25_ResultsShowLastUpload ==
    /\ ~session.has
    /\ [][RendersSession /\ WrittenBySuccessfulUpload]_vars

\* the page rendered after two uploads shows the second one
C25_Witness ==
    /\ response # NoneVal
    /\ response.route = "results"
    /\ response.branch = "rendered"
    /\ Len(uploads) = 2
    /\ response.result.filename = uploads[2]
    /\ response.result.timestamp = 2

\* the redirect of results() when no upload has succeeded
C25_Redirected ==
    /\ response # NoneVal
    /\ response.route = "results"
    /\ response.branch = "no_result"
    /\ Len(uploads) > 0

\* ---------------------------------------------------------------------------
\* C26: a POST /diagnose/upload that is rejected (missing part, empty
\* filename, disallowed extension) or that fails in preprocessing leaves
\* session['diagnosis_result'] exactly as it was, and no step of a
\* /diagnose/api/upload request ever changes it.
UploadRefused ==
    /\ calls' # calls
    /\ thr' = thr
    /\ response'.route = "upload"
    /\ response'.branch \in
          {"no_file_part", "no_filename", "not_allowed", "exception"}

ApiStep ==
    \/ calls' # calls /\ thr' = thr /\ response'.route = "api_upload"
    \/ \E t \in Threads :
          /\ thr'[t] # thr[t]
          /\ "api_upload" \in {thr[t].route, thr'[t].route}

C26_SessionFrame ==
    [][(UploadRefused \/ ApiStep) => session' = session]_vars

\* an upload was refused while the session held an earlier result
C26_Witness ==
    /\ session.has
    /\ response # NoneVal
    /\ response.route = "upload"
    /\ response.branch \in {"no_file_part", "no_filename", "not_allowed"}

\* an API upload succeeded while the session held an earlier result
C26_ApiAnswered ==
    /\ session.has
    /\ response # NoneVal
    /\ response.route = "api_upload"
    /\ response.branch = "success"
    /\ response.json.result.filename # session.diagnosis_result.filename

\* ---------------------------------------------------------------------------
\* C27: the confidence predict_image hands to get_groq_analysis, which the
\* prompt presents as a percentage, is the same number as the 'confidence'
\* field of the returned result (the probability scaled to 0..100): the two
\* decimals in front of the prompt's '%' are the result's confidence.
C27_PromptShowsResultConfidence ==
    (/\ call.fn = "predict_image"
     /\ config.GROQ_API_KEY # ""
     /\ call.out.posts = 1
     /\ call.out.ret.class_index # -1)
        => FormatPercent2(MaxProbability(call.loaded.out))
              = call.out.ret.confidence

====
